---------------------------- MODULE Spec2Model ----------------------------
(***************************************************************************)
(* Alpha Oracle: the prediction ledger (oracle-agent/oracle.py,            *)
(* oracle-agent/verifier.py) and the smart-money signal engine             *)
(* (client/nansen_oracle.py).                                              *)
(*                                                                         *)
(* Numbers.  Python floats are modelled as exact rationals.  A float       *)
(* price is an integer count of 1/SubDiv micro-units, i.e. the float       *)
(* n / (PRICE_MULTIPLIER * SubDiv), so that int(price * 1_000_000) is a    *)
(* real truncation and stored / 1_000_000 is a real widening.  Binary      *)
(* rounding error of IEEE doubles is not modelled.                         *)
(* Time is in seconds since the epoch, as time.time() returns it.          *)
(* A float amount of USD is an integer count of 1/CentDiv cents, and        *)
(* round(x, 2) rounds it to whole cents.  A confidence is a count of        *)
(* hundredths.                                                             *)
(***************************************************************************)
EXTENDS Integers, Sequences, FiniteSets, TLC

VARIABLES
    ledger,      \* predictions.json: the list of prediction dicts
    now,         \* the last value the host clock was read at (time.time())
    utcoffset,   \* the host's local-time offset from UTC, in seconds
    lastOp,      \* the entry point that ran last
    lastQuote,   \* what the Pyth request returned for each prediction it was made for, in the last verifier scan
    call,        \* one isolated call of verifier.verify_prediction: arguments and return value
    scan,        \* one run of nansen_oracle.main: raw data, FlowSignal lists, merged list
    procs        \* runs of the ledger's entry points as separate processes: position and loaded list

vars == <<ledger, now, utcoffset, lastOp, lastQuote, call, scan, procs>>

-----------------------------------------------------------------------------
(* Bounds of the model *)

MaxPreds == 2        \* create_prediction_tx is not called on a ledger this long
MaxClock == 1        \* the clock is read at whole hours 0 .. MaxClock
SubDiv == 4          \* float prices resolve 1/SubDiv of a micro-unit
MaxFlows == 1        \* raw netflow records per chain
MaxTrades == 3       \* raw DEX trades per chain
CentDiv == 4         \* float USD amounts resolve 1/CentDiv of a cent
MaxProcs == 3        \* processes that run an entry point concurrently

(* Program constants *)

SecondsPerHour == 3600
PctBase == 100
TakeProfitPct == 105
StopLossPct == 95

-----------------------------------------------------------------------------
(* Optional values: a missing dict key, or Python None, is the empty tuple *)

None == << >>
Some(v) == <<v>>
Val(o) == o[1]

(* int(x) of the rational num / den, den > 0: truncation toward zero *)
int(num, den) ==
    IF num >= 0 THEN num \div den ELSE -((-num) \div den)

(* price_to_u64(price) for the float price = num / (den * PRICE_MULTIPLIER):
   int(price * PRICE_MULTIPLIER) *)
price_to_u64(num, den) == int(num, den)

(* stored / 1_000_000: the float a stored micro-unit integer converts to *)
from_micro(stored) == stored * SubDiv

(* The assets that have an entry in PYTH_FEED_IDS *)
PYTH_FEED_IDS ==
    {"BTC", "ETH", "SOL", "XRP", "DOGE", "AVAX", "BNB", "ADA", "LINK", "DOT",
     "MATIC", "NEAR", "APT", "SUI", "SEI", "INJ", "ATOM", "HYPE", "ARB", "OP"}

(* a lookup that answers 0 for an asset without a feed *)
get_pyth_price_ZeroDefault(asset, response) ==
    IF asset \notin PYTH_FEED_IDS THEN Some(0) ELSE response

(* get_pyth_price(asset): None without a feed id; otherwise what the HTTP
   request yields, `response`: None on any failure or empty answer, else
   Some(price) *)
get_pyth_price(asset, response) ==
    IF asset \notin PYTH_FEED_IDS THEN None ELSE response

-----------------------------------------------------------------------------
(* verifier.verify_prediction(prediction, current_price) *)

(* a verifier that looks at the targets only *)
verify_prediction_TargetsOnly(prediction, current_price) ==
    LET tp == from_micro(prediction.take_profit)
    IN  IF prediction.direction = "LONG"
        THEN IF current_price >= tp THEN "won" ELSE "lost"
        ELSE IF current_price <= tp THEN "won" ELSE "lost"

verify_prediction(prediction, current_price) ==
    LET direction == prediction.direction
        entry == from_micro(prediction.entry_price)
        tp == from_micro(prediction.take_profit)
        sl == from_micro(prediction.stop_loss)
    IN  IF direction = "LONG"
        THEN IF current_price >= tp THEN "won"
             ELSE IF current_price <= sl THEN "lost"
             ELSE IF current_price > entry THEN "won"
             ELSE "lost"
        ELSE IF current_price <= tp THEN "won"
             ELSE IF current_price >= sl THEN "lost"
             ELSE IF current_price < entry THEN "won"
             ELSE "lost"

-----------------------------------------------------------------------------
(* Host clock *)

(* the values a read of time.time() can return after `now` was read *)
ClockReads == {t \in {h * SecondsPerHour : h \in 0..MaxClock} : t >= now}

(* datetime.utcnow() at epoch time t, as seconds of UTC wall-clock time *)
utcnow(t) == t

(* datetime.utcnow().timestamp() at epoch time t: the naive UTC wall-clock
   value is read back as local time *)
utcnow_timestamp(t) == utcnow(t) - utcoffset

-----------------------------------------------------------------------------
(* oracle.create_prediction_tx(signal, timeframe_hours), at clock reading t *)

(* a creation that numbers the prediction by the count of active ones *)
NewPrediction_ActiveCount(signal, timeframe_hours, t, predictions) ==
    [ asset           |-> signal.symbol,
      direction       |-> IF signal.signal = 1 THEN "LONG" ELSE "SHORT",
      entry_price     |-> price_to_u64(signal.price, SubDiv),
      take_profit     |-> IF signal.take_profit_price # None
                          THEN price_to_u64(Val(signal.take_profit_price), SubDiv)
                          ELSE price_to_u64(signal.price * TakeProfitPct, SubDiv * PctBase),
      stop_loss       |-> IF signal.stop_loss_price # None
                          THEN price_to_u64(Val(signal.stop_loss_price), SubDiv)
                          ELSE price_to_u64(signal.price * StopLossPct, SubDiv * PctBase),
      timeframe_hours |-> timeframe_hours,
      created_at      |-> utcnow(t),
      expires_at      |-> utcnow_timestamp(t) + timeframe_hours * SecondsPerHour,
      status          |-> "active",
      original_signal |-> signal,
      local_id        |-> Cardinality({i \in 1..Len(predictions) :
                                          predictions[i].status = "active"}),
      result_price    |-> None,
      verified_at     |-> None ]

NewPrediction(signal, timeframe_hours, t, predictions) ==
    [ asset           |-> signal.symbol,
      direction       |-> IF signal.signal = 1 THEN "LONG" ELSE "SHORT",
      entry_price     |-> price_to_u64(signal.price, SubDiv),
      take_profit     |-> IF signal.take_profit_price # None
                          THEN price_to_u64(Val(signal.take_profit_price), SubDiv)
                          ELSE price_to_u64(signal.price * TakeProfitPct, SubDiv * PctBase),
      stop_loss       |-> IF signal.stop_loss_price # None
                          THEN price_to_u64(Val(signal.stop_loss_price), SubDiv)
                          ELSE price_to_u64(signal.price * StopLossPct, SubDiv * PctBase),
      timeframe_hours |-> timeframe_hours,
      created_at      |-> utcnow(t),
      expires_at      |-> utcnow_timestamp(t) + timeframe_hours * SecondsPerHour,
      status          |-> "active",
      original_signal |-> signal,
      local_id        |-> Len(predictions),
      result_price    |-> None,
      verified_at     |-> None ]

(* the actionable signals of the model *)
Symbols == {"BTC", "PEPE"}
SignalPrices == {100 * SubDiv + 1}
GivenTargets == {110 * SubDiv + 1}
GivenStops == {90 * SubDiv + 1}
AllSignals ==
    [ symbol : Symbols,
      signal : {1, -1},
      price : SignalPrices,
      take_profit_price : {None} \cup {Some(p) : p \in GivenTargets},
      stop_loss_price : {None} \cup {Some(p) : p \in GivenStops} ]
Signals ==
    { s \in AllSignals :
        \/ s.symbol = "BTC" /\ s.take_profit_price = None /\ s.stop_loss_price = None
        \/ s.symbol = "BTC" /\ s.signal = -1
              /\ s.take_profit_price # None /\ s.stop_loss_price = None
        \/ s.symbol = "PEPE" /\ s.signal = 1
              /\ s.take_profit_price # None /\ s.stop_loss_price # None }
Timeframes == {1, 2}

create_prediction_tx(signal, timeframe_hours, t) ==
    /\ Len(ledger) < MaxPreds
    /\ ledger' = Append(ledger, NewPrediction(signal, timeframe_hours, t, ledger))
    /\ now' = t
    /\ lastOp' = "create_prediction_tx"
    /\ lastQuote' = << >>
    /\ UNCHANGED <<utcoffset, call, scan, procs>>

-----------------------------------------------------------------------------
(* oracle.verify_predictions(), at clock reading current_time *)

(* a scan that does not skip the non-active predictions *)
OracleScanned_NoSkip(pred, current_time) ==
    IF current_time >= pred.expires_at
    THEN [pred EXCEPT !.status = "needs_verification"]
    ELSE pred

(* a scan that takes a prediction as expired only strictly after expires_at *)
OracleScanned_StrictlyAfter(pred, current_time) ==
    IF pred.status # "active" THEN pred
    ELSE IF current_time > pred.expires_at
         THEN [pred EXCEPT !.status = "needs_verification"]
         ELSE pred

OracleScanned(pred, current_time) ==
    IF pred.status # "active" THEN pred
    ELSE IF current_time >= pred.expires_at
         THEN [pred EXCEPT !.status = "needs_verification"]
         ELSE pred

verify_predictions(current_time) ==
    /\ ledger' = [i \in 1..Len(ledger) |-> OracleScanned(ledger[i], current_time)]
    /\ now' = current_time
    /\ lastOp' = "verify_predictions"
    /\ lastQuote' = << >>
    /\ UNCHANGED <<utcoffset, call, scan, procs>>

-----------------------------------------------------------------------------
(* verifier.process_expired_predictions(), at clock reading current_time *)

(* the predictions the loop reaches get_pyth_price for *)
Expired(pred, current_time) ==
    pred.status = "active" /\ ~(current_time < pred.expires_at)

(* the predictions the Pyth HTTP request is made for *)
Requested(predictions, current_time) ==
    {i \in 1..Len(predictions) :
        Expired(predictions[i], current_time) /\ predictions[i].asset \in PYTH_FEED_IDS}

(* a scan that rounds the reference price to the nearest micro-unit *)
VerifierScanned_Rounds(pred, current_time, response) ==
    IF pred.status # "active" THEN pred
    ELSE IF current_time < pred.expires_at THEN pred
    ELSE LET current_price == get_pyth_price(pred.asset, response)
         IN  IF current_price = None
             THEN [pred EXCEPT !.status = "needs_manual_verification"]
             ELSE [pred EXCEPT !.status = verify_prediction(pred, Val(current_price)),
                               !.result_price =
                                   Some(int(2 * Val(current_price) + SubDiv, 2 * SubDiv)),
                               !.verified_at = Some(utcnow(current_time))]

(* a scan that skips only the decided predictions *)
VerifierScanned_SkipsDecidedOnly(pred, current_time, response) ==
    IF pred.status \in {"won", "lost"} THEN pred
    ELSE IF current_time < pred.expires_at THEN pred
    ELSE LET current_price == get_pyth_price(pred.asset, response)
         IN  IF current_price = None
             THEN [pred EXCEPT !.status = "needs_manual_verification"]
             ELSE [pred EXCEPT !.status = verify_prediction(pred, Val(current_price)),
                               !.result_price = Some(int(Val(current_price), SubDiv)),
                               !.verified_at = Some(utcnow(current_time))]

(* a scan that stamps the prediction before it looks the price up *)
VerifierScanned_StampsFirst(pred, current_time, response) ==
    IF pred.status # "active" THEN pred
    ELSE IF current_time < pred.expires_at THEN pred
    ELSE LET current_price == get_pyth_price(pred.asset, response)
         IN  IF current_price = None
             THEN [pred EXCEPT !.status = "needs_manual_verification",
                               !.verified_at = Some(utcnow(current_time))]
             ELSE [pred EXCEPT !.status = verify_prediction(pred, Val(current_price)),
                               !.result_price = Some(int(Val(current_price), SubDiv)),
                               !.verified_at = Some(utcnow(current_time))]

VerifierScanned(pred, current_time, response) ==
    IF pred.status # "active" THEN pred
    ELSE IF current_time < pred.expires_at THEN pred
    ELSE LET current_price == get_pyth_price(pred.asset, response)
         IN  IF current_price = None
             THEN [pred EXCEPT !.status = "needs_manual_verification"]
             ELSE [pred EXCEPT !.status = verify_prediction(pred, Val(current_price)),
                               !.result_price = Some(int(Val(current_price), SubDiv)),
                               !.verified_at = Some(utcnow(current_time))]

ResponseOf(quote, i) == IF i \in DOMAIN quote THEN quote[i] ELSE None

(* a loop that ends at the first prediction without a price *)
RECURSIVE ScanLoop_BreaksOnNoPrice(_, _, _, _)
ScanLoop_BreaksOnNoPrice(predictions, i, current_time, quote) ==
    IF i > Len(predictions) THEN predictions
    ELSE LET scanned == [predictions EXCEPT
                            ![i] = VerifierScanned(predictions[i], current_time,
                                                   ResponseOf(quote, i))]
         IN  IF scanned[i].status = "needs_manual_verification"
                  /\ predictions[i].status = "active"
             THEN scanned
             ELSE ScanLoop_BreaksOnNoPrice(scanned, i + 1, current_time, quote)

(* the for loop over the loaded list, from index i on; every branch of the
   body ends in `continue` or falls through to the next prediction *)
RECURSIVE ScanLoop(_, _, _, _)
ScanLoop(predictions, i, current_time, quote) ==
    IF i > Len(predictions) THEN predictions
    ELSE ScanLoop([predictions EXCEPT
                      ![i] = VerifierScanned(predictions[i], current_time,
                                             ResponseOf(quote, i))],
                  i + 1, current_time, quote)

(* the reference prices of the model *)
PythPrices == {94 * SubDiv + (SubDiv - 1), 105 * SubDiv + (SubDiv - 1)}
Responses == {None} \cup {Some(p) : p \in PythPrices}

process_expired_predictions(current_time, quote) ==
    /\ ledger' = ScanLoop(ledger, 1, current_time, quote)
    /\ now' = current_time
    /\ lastOp' = "process_expired_predictions"
    /\ lastQuote' = quote
    /\ UNCHANGED <<utcoffset, call, scan, procs>>

-----------------------------------------------------------------------------
(* The ledger and its entry points *)

UtcOffsets == {0, SecondsPerHour}
IdleCall == [pc |-> "idle"]
IdleScan == [pc |-> "idle"]
IdleProc == [pc |-> "idle", op |-> "none", predictions |-> << >>]
NoProcs == [p \in 1..MaxProcs |-> IdleProc]

Init ==
    /\ ledger = << >>
    /\ now = 0
    /\ utcoffset \in UtcOffsets
    /\ lastOp = "none"
    /\ lastQuote = << >>
    /\ procs = NoProcs
    /\ call = IdleCall
    /\ scan = IdleScan

Create ==
    \E signal \in Signals, timeframe_hours \in Timeframes, t \in ClockReads :
        create_prediction_tx(signal, timeframe_hours, t)

OracleScan ==
    \E t \in ClockReads : verify_predictions(t)

VerifierScan ==
    \E t \in ClockReads :
        \E quote \in [Requested(ledger, t) -> Responses] :
            process_expired_predictions(t, quote)

Next == Create \/ OracleScan \/ VerifierScan

Spec == Init /\ [][Next]_vars

(* The two entry points run again and again (each is a job that is started
   over and over), and the price service answers every request: a verifier
   scan gets a price for every prediction it asks one for. *)
PricedResponses == {Some(p) : p \in PythPrices}

VerifierScanPriced ==
    \E t \in ClockReads :
        \E quote \in [Requested(ledger, t) -> PricedResponses] :
            process_expired_predictions(t, quote)

NextFair == Create \/ OracleScan \/ VerifierScanPriced

SpecFair ==
    /\ Init
    /\ [][NextFair]_vars
    /\ WF_vars(OracleScan)
    /\ WF_vars(VerifierScanPriced)

-----------------------------------------------------------------------------
(* The entry points as separate processes on the one predictions.json.
   Nothing in the code locks the file.  A process takes two steps: it loads
   the list and works on its own copy (a creation appends its record, a
   scan reads the clock and sets the statuses), and later it saves the
   copy over the file.  Between the two steps any other process may load
   or save.  A process reads the file nowhere else, so the work on the copy
   is taken in the loading step.  Processes are numbered in the order they
   load.  A load that meets a half-written file raises in json.load and the
   process ends without saving, which leaves the file as if the process had
   not run: a process that never starts covers it. *)

Started(p) == \A q \in 1..(p - 1) : procs[q].pc # "idle"

Loaded(p, op, predictions) ==
    [procs EXCEPT ![p] = [pc |-> "loaded", op |-> op, predictions |-> predictions]]

(* create_prediction_tx up to predictions.append(prediction) *)
CreateLoads(p, signal, timeframe_hours, t) ==
    /\ procs[p].pc = "idle"
    /\ Started(p)
    /\ Len(ledger) < MaxPreds
    /\ procs' = Loaded(p, "create_prediction_tx",
                       Append(ledger, NewPrediction(signal, timeframe_hours, t, ledger)))
    /\ now' = t
    /\ UNCHANGED <<ledger, utcoffset, lastOp, lastQuote, call, scan>>

(* verify_predictions up to the end of its loop *)
OracleScanLoads(p, current_time) ==
    /\ procs[p].pc = "idle"
    /\ Started(p)
    /\ procs' = Loaded(p, "verify_predictions",
                       [i \in 1..Len(ledger) |-> OracleScanned(ledger[i], current_time)])
    /\ now' = current_time
    /\ UNCHANGED <<ledger, utcoffset, lastOp, lastQuote, call, scan>>

(* process_expired_predictions up to the end of its loop *)
VerifierScanLoads(p, current_time, quote) ==
    /\ procs[p].pc = "idle"
    /\ Started(p)
    /\ procs' = Loaded(p, "process_expired_predictions",
                       ScanLoop(ledger, 1, current_time, quote))
    /\ now' = current_time
    /\ UNCHANGED <<ledger, utcoffset, lastOp, lastQuote, call, scan>>

(* save_predictions_log(predictions) / save_predictions(predictions): the
   file is overwritten with the process's list *)
Saves(p) ==
    /\ procs[p].pc = "loaded"
    /\ ledger' = procs[p].predictions
    /\ procs' = [procs EXCEPT ![p].pc = "done"]
    /\ lastOp' = procs[p].op
    /\ UNCHANGED <<now, utcoffset, lastQuote, call, scan>>

(* the signals that give no take_profit_price and no stop_loss_price: BTC,
   either direction; the concurrent creations are called with these, each
   prediction expiring one hour on *)
DefaultTargetSignals ==
    {s \in Signals : s.take_profit_price = None /\ s.stop_loss_price = None}

CreateLoad ==
    \E p \in 1..MaxProcs, signal \in DefaultTargetSignals, t \in ClockReads :
        CreateLoads(p, signal, 1, t)

OracleScanLoad ==
    \E p \in 1..MaxProcs, t \in ClockReads : OracleScanLoads(p, t)

VerifierScanLoad ==
    \E p \in 1..MaxProcs, t \in ClockReads :
        \E quote \in [Requested(ledger, t) -> Responses] :
            VerifierScanLoads(p, t, quote)

Save == \E p \in 1..MaxProcs : Saves(p)

NextInterleaved == CreateLoad \/ OracleScanLoad \/ VerifierScanLoad \/ Save

(* an empty predictions.json on a host on UTC, no process started *)
InitInterleaved ==
    /\ ledger = << >>
    /\ now = 0
    /\ utcoffset = 0
    /\ lastOp = "none"
    /\ lastQuote = << >>
    /\ procs = NoProcs
    /\ call = IdleCall
    /\ scan = IdleScan

SpecInterleaved == InitInterleaved /\ [][NextInterleaved]_vars

-----------------------------------------------------------------------------
(* Predictions created with the default targets and verified against a
   reference price below, between and above the targets *)

DriftPrices == PythPrices \cup {102 * SubDiv + 1}

CreateDefault ==
    \E signal \in DefaultTargetSignals, timeframe_hours \in Timeframes,
       t \in ClockReads :
        create_prediction_tx(signal, timeframe_hours, t)

VerifierScanDrift ==
    \E t \in ClockReads :
        \E quote \in [Requested(ledger, t) -> {Some(p) : p \in DriftPrices}] :
            process_expired_predictions(t, quote)

NextDefaults == CreateDefault \/ VerifierScanDrift

SpecDefaults == Init /\ [][NextDefaults]_vars

-----------------------------------------------------------------------------
(* verify_prediction on its own: one call, arguments drawn from bounded sets *)

PricePoints == {90, 100, 110}
VerifyArgs ==
    [ direction : {"LONG", "SHORT"},
      entry_price : PricePoints,
      take_profit : PricePoints,
      stop_loss : PricePoints ]
VerifyPrices == {p * SubDiv + d : p \in PricePoints, d \in {-1, 0, 1}}

InitVerify ==
    /\ ledger = << >>
    /\ now = 0
    /\ utcoffset = 0
    /\ lastOp = "none"
    /\ lastQuote = << >>
    /\ procs = NoProcs
    /\ call \in [ pc : {"call"}, prediction : VerifyArgs,
                  current_price : VerifyPrices, result : {"none"} ]
    /\ scan = IdleScan

VerifyCall ==
    /\ call.pc = "call"
    /\ call' = [call EXCEPT !.pc = "return",
                            !.result = verify_prediction(call.prediction,
                                                         call.current_price)]
    /\ UNCHANGED <<ledger, now, utcoffset, lastOp, lastQuote, scan, procs>>

NextVerify == VerifyCall

SpecVerify == InitVerify /\ [][NextVerify]_vars

-----------------------------------------------------------------------------
(* client/nansen_oracle.py: program constants *)

CentsPerUsd == 100       \* round(x, 2)
FlowFloorUsd == 5000     \* abs(primary_flow) > 5000
PctPerMille == 1000      \* flow_pct > 0.1, flow_pct = abs(primary_flow) / mcap * 100
BigFlowUsd == 50000
HugeFlowUsd == 200000
MinTraders == 3
BaseConf == 30
FlowBonus == 20
AgreeBonus == 10
MaxConf == 100
VolumeFloorUsd == 5000   \* total < 5000
RatioDen == 10
HighRatio == 6           \* buy_ratio > 0.6
LowRatio == 4            \* buy_ratio < 0.4
DexBaseConf == 20
DexTradeBonus == 10
DexMinTrades == 3
MergeBoost == 20
MergeCut == 30
ConfFloor == 10

(* a whole number of USD as a float amount *)
Usd(x) == x * CentsPerUsd * CentDiv

Abs(x) == IF x < 0 THEN -x ELSE x
Min(a, b) == IF a <= b THEN a ELSE b
Max(a, b) == IF a >= b THEN a ELSE b

(* round(num / den) to the nearest integer, ties to even; den > 0 *)
RoundHalfEven(num, den) ==
    LET a == Abs(num)
        q == a \div den
        r == a % den
        m == IF 2 * r > den \/ (2 * r = den /\ q % 2 = 1) THEN q + 1 ELSE q
    IN  IF num < 0 THEN -m ELSE m

(* round(x, 2) of a float amount of USD, in cents *)
round2(x) == RoundHalfEven(x, CentDiv)

(* str.upper() on the symbols of the model *)
upper(symbol) == IF symbol = "uni" THEN "UNI" ELSE symbol

(* list.sort(key = ..., reverse = True): a stable sort, largest key first;
   keys[i] is the key of seq[i] *)
RECURSIVE InsertDesc(_, _, _)
InsertDesc(order, i, keys) ==
    IF order = << >> THEN <<i>>
    ELSE IF keys[Head(order)] >= keys[i]
         THEN <<Head(order)>> \o InsertDesc(Tail(order), i, keys)
         ELSE <<i>> \o order

RECURSIVE SortOrder(_, _)
SortOrder(keys, n) ==
    IF n = 0 THEN << >> ELSE InsertDesc(SortOrder(keys, n - 1), n, keys)

SortDesc(seq, keys) ==
    LET order == SortOrder(keys, Len(seq))
    IN  [k \in 1..Len(seq) |-> seq[order[k]]]

(* CHAINS_TO_SCAN, in the order main() fills the two dicts; the model scans
   the first two *)
Chains == <<"ethereum", "solana">>

-----------------------------------------------------------------------------
(* analyze_netflows(all_netflows) *)

(* the body of the inner loop: the signal appended for one raw record, or
   None when the record is skipped.  Of the signal's fields the model keeps
   those that merge_signals and the sort read; the echoed inputs
   (net_flow_1h_usd, net_flow_7d_usd, market_cap_usd, flow_pct_mcap,
   trader_count) and the timestamp are left out. *)
NetflowSignal(chain, token_flow) ==
    LET symbol == token_flow.token_symbol
        net_flow_24h == token_flow.net_flow_24h_usd
        net_flow_1h == token_flow.net_flow_1h_usd
        net_flow_7d == token_flow.net_flow_7d_usd
        mcap == token_flow.market_cap_usd
        trader_count == token_flow.trader_count
        primary_flow == IF net_flow_24h # 0 THEN net_flow_24h ELSE net_flow_1h
        conf == BaseConf
                + (IF Abs(primary_flow) > Usd(BigFlowUsd) THEN FlowBonus ELSE 0)
                + (IF Abs(primary_flow) > Usd(HugeFlowUsd) THEN FlowBonus ELSE 0)
                + (IF trader_count >= MinTraders THEN AgreeBonus ELSE 0)
                + (IF ((net_flow_1h > 0) = (net_flow_24h > 0)) /\ net_flow_1h # 0
                   THEN AgreeBonus ELSE 0)
                + (IF ((net_flow_7d > 0) = (net_flow_24h > 0)) /\ net_flow_7d # 0
                   THEN AgreeBonus ELSE 0)
    IN  IF symbol = "" THEN None
        ELSE IF primary_flow = 0 THEN None
        ELSE IF \/ Abs(primary_flow) > Usd(FlowFloorUsd)
                \* abs(primary_flow) / mcap * 100 > 0.1
                \/ (mcap > 0 /\ Abs(primary_flow) > mcap \div PctPerMille)
        THEN Some([ symbol       |-> upper(symbol),
                    chain        |-> chain,
                    direction    |-> IF primary_flow > 0 THEN "LONG" ELSE "SHORT",
                    net_flow_usd |-> round2(primary_flow),
                    confidence   |-> Min(conf, MaxConf),
                    source       |-> "nansen_smart_money_netflow" ])
        ELSE None

(* the signals of flows[i..], in order *)
RECURSIVE ChainNetflowSignals(_, _, _)
ChainNetflowSignals(chain, flows, i) ==
    IF i > Len(flows) THEN << >>
    ELSE NetflowSignal(chain, flows[i]) \o ChainNetflowSignals(chain, flows, i + 1)

(* the signals of the chains Chains[c..], in order *)
RECURSIVE AllNetflowSignals(_, _)
AllNetflowSignals(all_netflows, c) ==
    IF c > Len(Chains) THEN << >>
    ELSE ChainNetflowSignals(Chains[c], all_netflows[Chains[c]], 1)
             \o AllNetflowSignals(all_netflows, c + 1)

analyze_netflows(all_netflows) ==
    LET signals == AllNetflowSignals(all_netflows, 1)
    IN  SortDesc(signals, [k \in 1..Len(signals) |-> Abs(signals[k].net_flow_usd)])

-----------------------------------------------------------------------------
(* analyze_dex_trades(all_trades) *)

stables == {"USDC", "USDT", "DAI", "BUSD", "WETH", "WBTC", "WBNB", "WSOL"}

(* token_agg is the dict in insertion order: a sequence of entries, each
   with its key *)
AggIndex(token_agg, key) ==
    {k \in 1..Len(token_agg) : token_agg[k].key = key}

(* an aggregation that counts the buy legs only *)
AddLeg_SellsUncounted(token_agg, symbol, chain, side, usd_value) ==
    LET key == <<upper(symbol), chain>>
        agg == IF AggIndex(token_agg, key) = {}
               THEN Append(token_agg,
                           [ key |-> key, symbol |-> upper(symbol), chain |-> chain,
                             buys |-> 0, sells |-> 0, trades |-> 0 ])
               ELSE token_agg
        k == CHOOSE x \in AggIndex(agg, key) : TRUE
    IN  IF side = "buys"
        THEN [agg EXCEPT ![k].buys = @ + usd_value, ![k].trades = @ + 1]
        ELSE [agg EXCEPT ![k].sells = @ + usd_value]

(* one leg of a trade: create the entry if the key is new, add the value to
   buys or sells, count the trade *)
AddLeg(token_agg, symbol, chain, side, usd_value) ==
    LET key == <<upper(symbol), chain>>
        agg == IF AggIndex(token_agg, key) = {}
               THEN Append(token_agg,
                           [ key |-> key, symbol |-> upper(symbol), chain |-> chain,
                             buys |-> 0, sells |-> 0, trades |-> 0 ])
               ELSE token_agg
        k == CHOOSE x \in AggIndex(agg, key) : TRUE
    IN  IF side = "buys"
        THEN [agg EXCEPT ![k].buys = @ + usd_value, ![k].trades = @ + 1]
        ELSE [agg EXCEPT ![k].sells = @ + usd_value, ![k].trades = @ + 1]

(* the body of the inner loop for one trade *)
AggTrade(token_agg, chain, trade) ==
    LET bought == trade.token_bought_symbol
        sold == trade.token_sold_symbol
        usd_value == trade.trade_value_usd
        afterBuy == IF bought # "" /\ upper(bought) \notin stables
                    THEN AddLeg(token_agg, bought, chain, "buys", usd_value)
                    ELSE token_agg
    IN  IF usd_value = 0 THEN token_agg
        ELSE IF sold # "" /\ upper(sold) \notin stables
             THEN AddLeg(afterBuy, sold, chain, "sells", usd_value)
             ELSE afterBuy

RECURSIVE AggChain(_, _, _, _)
AggChain(token_agg, chain, trades, i) ==
    IF i > Len(trades) THEN token_agg
    ELSE AggChain(AggTrade(token_agg, chain, trades[i]), chain, trades, i + 1)

RECURSIVE Aggregate(_, _, _)
Aggregate(token_agg, all_trades, c) ==
    IF c > Len(Chains) THEN token_agg
    ELSE Aggregate(AggChain(token_agg, Chains[c], all_trades[Chains[c]], 1),
                   all_trades, c + 1)

(* an analysis without the bonus for three or more trades *)
DexSignal_NoTradeBonus(agg) ==
    LET total == agg.buys + agg.sells
        net == agg.buys - agg.sells
        base == Min(MaxConf * Abs(2 * agg.buys - total) + DexBaseConf * total,
                    MaxConf * total)
    IN  IF total < Usd(VolumeFloorUsd) THEN None
        ELSE IF total > 0
                /\ \/ RatioDen * agg.buys > HighRatio * total
                   \/ RatioDen * agg.buys < LowRatio * total
        THEN Some([ symbol       |-> agg.symbol,
                    chain        |-> agg.chain,
                    direction    |-> IF net > 0 THEN "LONG" ELSE "SHORT",
                    net_flow_usd |-> round2(net),
                    confidence   |-> RoundHalfEven(base, total),
                    source       |-> "nansen_smart_money_dex" ])
        ELSE None

(* the body of the second loop: the signal appended for one entry, or None *)
DexSignal(agg) ==
    LET total == agg.buys + agg.sells
        net == agg.buys - agg.sells
        \* confidence as the rational confN / total, in hundredths:
        \* abs(buy_ratio - 0.5) * 2 = abs(2 * buys - total) / total
        base == Min(MaxConf * Abs(2 * agg.buys - total) + DexBaseConf * total,
                    MaxConf * total)
        confN == IF agg.trades >= DexMinTrades
                 THEN Min(base + DexTradeBonus * total, MaxConf * total)
                 ELSE base
    IN  IF total < Usd(VolumeFloorUsd) THEN None
        ELSE IF total > 0
                /\ \/ RatioDen * agg.buys > HighRatio * total
                   \/ RatioDen * agg.buys < LowRatio * total
        THEN Some([ symbol       |-> agg.symbol,
                    chain        |-> agg.chain,
                    direction    |-> IF net > 0 THEN "LONG" ELSE "SHORT",
                    net_flow_usd |-> round2(net),
                    confidence   |-> RoundHalfEven(confN, total),
                    source       |-> "nansen_smart_money_dex" ])
        ELSE None

RECURSIVE DexSignals(_, _)
DexSignals(token_agg, k) ==
    IF k > Len(token_agg) THEN << >>
    ELSE DexSignal(token_agg[k]) \o DexSignals(token_agg, k + 1)

analyze_dex_trades(all_trades) ==
    LET signals == DexSignals(Aggregate(<< >>, all_trades, 1), 1)
    IN  SortDesc(signals, [k \in 1..Len(signals) |-> Abs(signals[k].net_flow_usd)])

-----------------------------------------------------------------------------
(* merge_signals(netflow_signals, dex_signals) *)

MergedIndex(merged, key) ==
    {k \in 1..Len(merged) : merged[k].symbol = key}

(* a merge that cuts the confidence without a floor *)
MergeInto_NoFloor(merged, sig) ==
    IF MergedIndex(merged, sig.symbol) = {}
    THEN Append(merged, [ symbol       |-> sig.symbol,
                          chain        |-> sig.chain,
                          direction    |-> sig.direction,
                          confidence   |-> sig.confidence,
                          sources      |-> <<sig.source>>,
                          net_flow_usd |-> sig.net_flow_usd ])
    ELSE LET k == CHOOSE x \in MergedIndex(merged, sig.symbol) : TRUE
             existing == merged[k]
         IN  [merged EXCEPT
                 ![k].sources = Append(@, sig.source),
                 ![k].confidence =
                     IF existing.direction = sig.direction
                     THEN Min(@ + MergeBoost, MaxConf)
                     ELSE @ - MergeCut,
                 ![k].net_flow_usd = @ + sig.net_flow_usd]

(* a merge that leaves the confidence alone when the directions agree *)
MergeInto_NoBoost(merged, sig) ==
    IF MergedIndex(merged, sig.symbol) = {}
    THEN Append(merged, [ symbol       |-> sig.symbol,
                          chain        |-> sig.chain,
                          direction    |-> sig.direction,
                          confidence   |-> sig.confidence,
                          sources      |-> <<sig.source>>,
                          net_flow_usd |-> sig.net_flow_usd ])
    ELSE LET k == CHOOSE x \in MergedIndex(merged, sig.symbol) : TRUE
             existing == merged[k]
         IN  [merged EXCEPT
                 ![k].sources = Append(@, sig.source),
                 ![k].confidence =
                     IF existing.direction = sig.direction
                     THEN @
                     ELSE Max(@ - MergeCut, ConfFloor),
                 ![k].net_flow_usd = @ + sig.net_flow_usd]

(* a merge that cuts a conflicting confidence by 0.20 only *)
MergeInto_CutsTwenty(merged, sig) ==
    IF MergedIndex(merged, sig.symbol) = {}
    THEN Append(merged, [ symbol       |-> sig.symbol,
                          chain        |-> sig.chain,
                          direction    |-> sig.direction,
                          confidence   |-> sig.confidence,
                          sources      |-> <<sig.source>>,
                          net_flow_usd |-> sig.net_flow_usd ])
    ELSE LET k == CHOOSE x \in MergedIndex(merged, sig.symbol) : TRUE
             existing == merged[k]
         IN  [merged EXCEPT
                 ![k].sources = Append(@, sig.source),
                 ![k].confidence =
                     IF existing.direction = sig.direction
                     THEN Min(@ + MergeBoost, MaxConf)
                     ELSE Max(@ - MergeBoost, ConfFloor),
                 ![k].net_flow_usd = @ + sig.net_flow_usd]

(* a merge that takes the direction and chain of the latest signal *)
MergeInto_LatestWins(merged, sig) ==
    IF MergedIndex(merged, sig.symbol) = {}
    THEN Append(merged, [ symbol       |-> sig.symbol,
                          chain        |-> sig.chain,
                          direction    |-> sig.direction,
                          confidence   |-> sig.confidence,
                          sources      |-> <<sig.source>>,
                          net_flow_usd |-> sig.net_flow_usd ])
    ELSE LET k == CHOOSE x \in MergedIndex(merged, sig.symbol) : TRUE
             existing == merged[k]
         IN  [merged EXCEPT
                 ![k].sources = Append(@, sig.source),
                 ![k].chain = sig.chain,
                 ![k].direction = sig.direction,
                 ![k].confidence =
                     IF existing.direction = sig.direction
                     THEN Min(@ + MergeBoost, MaxConf)
                     ELSE Max(@ - MergeCut, ConfFloor),
                 ![k].net_flow_usd = @ + sig.net_flow_usd]

(* a merge that overwrites the flow with the latest signal's *)
MergeInto_OverwritesFlow(merged, sig) ==
    IF MergedIndex(merged, sig.symbol) = {}
    THEN Append(merged, [ symbol       |-> sig.symbol,
                          chain        |-> sig.chain,
                          direction    |-> sig.direction,
                          confidence   |-> sig.confidence,
                          sources      |-> <<sig.source>>,
                          net_flow_usd |-> sig.net_flow_usd ])
    ELSE LET k == CHOOSE x \in MergedIndex(merged, sig.symbol) : TRUE
             existing == merged[k]
         IN  [merged EXCEPT
                 ![k].sources = Append(@, sig.source),
                 ![k].confidence =
                     IF existing.direction = sig.direction
                     THEN Min(@ + MergeBoost, MaxConf)
                     ELSE Max(@ - MergeCut, ConfFloor),
                 ![k].net_flow_usd = sig.net_flow_usd]

(* the body of the loop: merged is the dict in insertion order *)
MergeInto(merged, sig) ==
    IF MergedIndex(merged, sig.symbol) = {}
    THEN Append(merged, [ symbol       |-> sig.symbol,
                          chain        |-> sig.chain,
                          direction    |-> sig.direction,
                          confidence   |-> sig.confidence,
                          sources      |-> <<sig.source>>,
                          net_flow_usd |-> sig.net_flow_usd ])
    ELSE LET k == CHOOSE x \in MergedIndex(merged, sig.symbol) : TRUE
             existing == merged[k]
         IN  [merged EXCEPT
                 ![k].sources = Append(@, sig.source),
                 ![k].confidence =
                     IF existing.direction = sig.direction
                     THEN Min(@ + MergeBoost, MaxConf)
                     ELSE Max(@ - MergeCut, ConfFloor),
                 ![k].net_flow_usd = @ + sig.net_flow_usd]

RECURSIVE MergeLoop(_, _, _)
MergeLoop(merged, sigs, i) ==
    IF i > Len(sigs) THEN merged
    ELSE MergeLoop(MergeInto(merged, sigs[i]), sigs, i + 1)

merge_signals(netflow_signals, dex_signals) ==
    LET result == MergeLoop(<< >>, netflow_signals \o dex_signals, 1)
    IN  SortDesc(result, [k \in 1..Len(result) |-> result[k].confidence])

-----------------------------------------------------------------------------
(* One run of main(): the raw data drawn from bounded sets, then the two
   analyses and the merge *)

SeqUpTo(S, n) == UNION {[1..k -> S] : k \in 0..n}

RawFlow(symbol, h24, h1, d7, mcap, traders) ==
    [ token_symbol |-> symbol, net_flow_24h_usd |-> h24, net_flow_1h_usd |-> h1,
      net_flow_7d_usd |-> d7, market_cap_usd |-> mcap, trader_count |-> traders ]

(* the raw netflow records of the model *)
NetflowRecords ==
    { RawFlow("uni", Usd(60000), Usd(10000), Usd(5000), 0, 4),
      RawFlow("UNI", -Usd(300000), 0, 0, 0, 0),
      RawFlow("SOL", 0, -Usd(6000), 0, 0, 0),
      RawFlow("SOL", 1, 0, 0, Usd(1), 3),
      RawFlow("UNI", -Usd(6000), 0, 0, 0, 0),
      RawFlow("", Usd(60000), 0, 0, 0, 0) }

RawTrade(bought, sold, usd_value) ==
    [ token_bought_symbol |-> bought, token_sold_symbol |-> sold,
      trade_value_usd |-> usd_value ]

(* the raw DEX trades of the model *)
DexTrades ==
    { RawTrade("uni", "USDC", Usd(2000) + 1),
      RawTrade("SOL", "UNI", Usd(3500)),
      RawTrade("UNI", "USDC", 0) }

(* the chains the model has DEX trades on *)
DexDataChains == {"solana"}

RawNetflows == [{Chains[c] : c \in 1..Len(Chains)} -> SeqUpTo(NetflowRecords, MaxFlows)]
RawDexTrades ==
    { t \in [{Chains[c] : c \in 1..Len(Chains)} -> SeqUpTo(DexTrades, MaxTrades)] :
        \A chain \in DOMAIN t : chain \notin DexDataChains => t[chain] = << >> }

InitSignals ==
    /\ ledger = << >>
    /\ now = 0
    /\ utcoffset = 0
    /\ lastOp = "none"
    /\ lastQuote = << >>
    /\ procs = NoProcs
    /\ call = IdleCall
    /\ scan \in { [ pc |-> "fetched", all_netflows |-> nf, all_dex_trades |-> tr,
                    netflow_signals |-> << >>, token_agg |-> << >>,
                    dex_signals |-> << >>, merged |-> << >> ] :
                  nf \in RawNetflows, tr \in RawDexTrades }

AnalyzeNetflows ==
    /\ scan.pc = "fetched"
    /\ scan' = [scan EXCEPT !.pc = "netflows_analyzed",
                            !.netflow_signals = analyze_netflows(scan.all_netflows)]
    /\ UNCHANGED <<ledger, now, utcoffset, lastOp, lastQuote, call, procs>>

AnalyzeDexTrades ==
    /\ scan.pc = "netflows_analyzed"
    /\ scan' = [scan EXCEPT !.pc = "dex_analyzed",
                            !.token_agg = Aggregate(<< >>, scan.all_dex_trades, 1),
                            !.dex_signals = analyze_dex_trades(scan.all_dex_trades)]
    /\ UNCHANGED <<ledger, now, utcoffset, lastOp, lastQuote, call, procs>>

MergeSignals ==
    /\ scan.pc = "dex_analyzed"
    /\ scan' = [scan EXCEPT !.pc = "merged",
                            !.merged = merge_signals(scan.netflow_signals,
                                                     scan.dex_signals)]
    /\ UNCHANGED <<ledger, now, utcoffset, lastOp, lastQuote, call, procs>>

NextSignals == AnalyzeNetflows \/ AnalyzeDexTrades \/ MergeSignals

SpecSignals == InitSignals /\ [][NextSignals]_vars

-----------------------------------------------------------------------------
(* Properties of the prediction ledger *)

Terminal == {"won", "lost", "needs_verification", "needs_manual_verification"}
Scans == {"verify_predictions", "process_expired_predictions"}
Ids(predictions) == 1..Len(predictions)

(* C1: once a prediction's status is won, lost, needs_verification or
   needs_manual_verification, no step of create_prediction_tx,
   verify_predictions or process_expired_predictions, at any clock reading
   and with any reference prices, changes that status. *)
C1_TerminalStatusIsFinal ==
    [][\A i \in Ids(ledger) :
          ledger[i].status \in Terminal =>
              /\ i \in Ids(ledger')
              /\ ledger'[i].status = ledger[i].status]_vars

(* a verifier scan has run over a prediction the oracle scan had already
   marked, and a creation over a decided one *)
C1_Witness ==
    /\ lastOp = "process_expired_predictions"
    /\ \E i \in Ids(ledger) : ledger[i].status = "needs_verification"
    /\ \E i \in Ids(ledger) :
          /\ ledger[i].status \in {"won", "lost", "needs_manual_verification"}
          /\ \E j \in Ids(ledger) : j > i /\ ledger[j].created_at >= ledger[i].expires_at

(* C2: verify_prediction returns the outcome of the decision table, rows in
   order: LONG wins iff current >= TP, or else current is above SL and above
   entry; SHORT wins iff current <= TP, or else current is below SL and
   below entry; every other case is lost, and nothing else is returned. *)
C2_DecisionTable ==
    call.pc = "return" =>
        LET current == call.current_price
            entry == call.prediction.entry_price * SubDiv
            tp == call.prediction.take_profit * SubDiv
            sl == call.prediction.stop_loss * SubDiv
            wins == IF call.prediction.direction = "LONG"
                    THEN current >= tp \/ (current > sl /\ current > entry)
                    ELSE current <= tp \/ (current < sl /\ current < entry)
        IN  /\ call.result \in {"won", "lost"}
            /\ (call.result = "won") <=> wins

(* a LONG call returned won by the third row: above entry, below TP *)
C2_Witness ==
    /\ call.pc = "return"
    /\ call.result = "won"
    /\ call.prediction.direction = "LONG"
    /\ call.current_price < call.prediction.take_profit * SubDiv
    /\ call.current_price > call.prediction.entry_price * SubDiv

(* C3: a process_expired_predictions scan leaves every prediction that was
   active and expired at the scan time, and for which a reference price was
   obtained, with the status verify_prediction gives for that price (won or
   lost), result_price the price truncated to whole micro-units, and
   verified_at set. *)
C3_PricedExpiredIsDecided ==
    [][lastOp' = "process_expired_predictions" =>
          \A i \in Ids(ledger) :
              ( /\ ledger[i].status = "active"
                /\ now' >= ledger[i].expires_at
                /\ ledger[i].asset \in PYTH_FEED_IDS
                /\ i \in DOMAIN lastQuote'
                /\ lastQuote'[i] # None )
              => LET price == Val(lastQuote'[i])
                     after == ledger'[i]
                 IN  /\ after.status = verify_prediction(ledger[i], price)
                     /\ after.status \in {"won", "lost"}
                     /\ after.result_price # None
                     /\ Val(after.result_price) * SubDiv <= price
                     /\ price < (Val(after.result_price) + 1) * SubDiv
                     /\ after.verified_at # None]_vars

(* the last scan obtained a price that is no whole number of micro-units and
   decided a prediction with it *)
C3_Witness ==
    /\ lastOp = "process_expired_predictions"
    /\ \E i \in DOMAIN lastQuote :
          /\ lastQuote[i] # None
          /\ Val(lastQuote[i]) % SubDiv # 0
          /\ ledger[i].status \in {"won", "lost"}
          /\ ledger[i].verified_at = Some(now)

(* C4: a process_expired_predictions scan leaves every prediction that was
   active and expired at the scan time, and for which no reference price
   was obtainable (no feed for the asset, or a failed request), with status
   needs_manual_verification and result_price and verified_at unset. *)
C4_UnpricedExpiredIsManual ==
    [][lastOp' = "process_expired_predictions" =>
          \A i \in Ids(ledger) :
              ( /\ ledger[i].status = "active"
                /\ now' >= ledger[i].expires_at
                /\ \/ ledger[i].asset \notin PYTH_FEED_IDS
                   \/ i \notin DOMAIN lastQuote'
                   \/ lastQuote'[i] = None )
              => /\ ledger'[i].status = "needs_manual_verification"
                 /\ ledger'[i].result_price = None
                 /\ ledger'[i].verified_at = None]_vars

(* the last scan had a failed request for one prediction, and a prediction
   of an asset without a feed is marked for manual verification *)
C4_Witness ==
    /\ lastOp = "process_expired_predictions"
    /\ \E i \in DOMAIN lastQuote :
          /\ lastQuote[i] = None
          /\ ledger[i].status = "needs_manual_verification"
    /\ \E j \in Ids(ledger) :
          /\ ledger[j].asset \notin PYTH_FEED_IDS
          /\ ledger[j].status = "needs_manual_verification"

(* C5: when process_expired_predictions has returned, no prediction of the
   ledger is both active and expired as of the scan time. *)
C5_NoExpiredActiveAfterScan ==
    lastOp = "process_expired_predictions" =>
        \A i \in Ids(ledger) :
            ~(ledger[i].status = "active" /\ now >= ledger[i].expires_at)

(* the last scan found no price for one prediction and decided a later one *)
C5_Witness ==
    /\ lastOp = "process_expired_predictions"
    /\ \E i \in DOMAIN lastQuote, j \in DOMAIN lastQuote :
          /\ i < j
          /\ lastQuote[i] = None
          /\ ledger[i].status = "needs_manual_verification"
          /\ ledger[j].status \in {"won", "lost"}
          /\ ledger[j].verified_at = Some(now)

(* what every expiry scan leaves alone: the number and order of the
   records, and every field of every non-active prediction *)
ScanFrame ==
    lastOp' \in Scans =>
        /\ Len(ledger') = Len(ledger)
        /\ \A i \in Ids(ledger) :
              /\ ledger'[i].local_id = ledger[i].local_id
              /\ ledger[i].status # "active" => ledger'[i] = ledger[i]

(* C6 as stated: an expiry scan keeps the frame, and a scan that follows a
   scan leaves the ledger as that one left it. *)
C6_ScanTwiceIsScanOnce ==
    [][/\ ScanFrame
       /\ (lastOp \in Scans /\ lastOp' \in Scans) => ledger' = ledger]_vars

(* C6 as amended: an expiry scan keeps the frame, and a scan that follows a
   scan leaves the ledger as that one left it provided no prediction's
   expires_at lies after the first scan's clock reading and at or before
   the second's. *)
C6_ScanFrameAndRescan ==
    [][/\ ScanFrame
       /\ ( /\ lastOp \in Scans
            /\ lastOp' \in Scans
            /\ \A i \in Ids(ledger) :
                  ~(now < ledger[i].expires_at /\ ledger[i].expires_at <= now') )
          => ledger' = ledger]_vars

(* the oracle scan has run right after a verifier scan that decided a
   prediction, with an active prediction that has not expired still there *)
C6_Witness ==
    /\ lastOp = "verify_predictions"
    /\ \A i \in Ids(ledger) : ledger[i].created_at < now
    /\ \E i \in Ids(ledger) : ledger[i].verified_at = Some(now)
    /\ \E i \in Ids(ledger) : ledger[i].status = "active"

(* C7: the local_id values of the ledger are pairwise distinct, and a newly
   created prediction gets a local_id that no earlier prediction has. *)
C7_LocalIdsDistinct ==
    /\ [](\A i \in Ids(ledger), j \in Ids(ledger) :
             i # j => ledger[i].local_id # ledger[j].local_id)
    /\ [][Len(ledger') > Len(ledger) =>
             \A i \in Ids(ledger) :
                 ledger'[Len(ledger')].local_id # ledger[i].local_id]_vars

(* a prediction was created after an earlier one had left the active state *)
C7_Witness ==
    /\ lastOp = "create_prediction_tx"
    /\ Len(ledger) >= 2
    /\ \E i \in Ids(ledger) : ledger[i].status # "active"

(* C8: create_prediction_tx appends one record with status active, direction
   LONG iff the signal value is 1, expires_at the creation time plus
   timeframe_hours * 3600 seconds, take_profit / stop_loss the signal's, or
   entry +5% / -5% when the signal has none; the records that were there are
   unchanged. *)
C8_CreateAppendsOne ==
    [][lastOp' = "create_prediction_tx" =>
          /\ Len(ledger') = Len(ledger) + 1
          /\ \A i \in Ids(ledger) : ledger'[i] = ledger[i]
          /\ LET new == ledger'[Len(ledger')]
                 signal == new.original_signal
             IN  /\ new.status = "active"
                 /\ (new.direction = "LONG") <=> (signal.signal = 1)
                 /\ new.direction \in {"LONG", "SHORT"}
                 /\ new.created_at = now'
                 /\ new.expires_at = now' + new.timeframe_hours * SecondsPerHour
                 /\ new.take_profit =
                       IF signal.take_profit_price # None
                       THEN int(Val(signal.take_profit_price), SubDiv)
                       ELSE int(signal.price * TakeProfitPct, SubDiv * PctBase)
                 /\ new.stop_loss =
                       IF signal.stop_loss_price # None
                       THEN int(Val(signal.stop_loss_price), SubDiv)
                       ELSE int(signal.price * StopLossPct, SubDiv * PctBase)]_vars

(* C9: result_price and verified_at are set on a prediction only if its
   status is won or lost. *)
C9_ResultOnlyWhenDecided ==
    \A i \in Ids(ledger) :
        (ledger[i].result_price # None \/ ledger[i].verified_at # None)
            => ledger[i].status \in {"won", "lost"}

(* the ledger holds a decided prediction with both fields set and one that
   awaits manual verification *)
C9_Witness ==
    \E i \in Ids(ledger), j \in Ids(ledger) :
        /\ ledger[i].status \in {"won", "lost"}
        /\ ledger[i].result_price # None
        /\ ledger[i].verified_at # None
        /\ ledger[j].status = "needs_manual_verification"

-----------------------------------------------------------------------------
(* Properties of the signal engine *)

(* C10: every MergedSignal that merge_signals returns for the outputs of
   analyze_netflows and analyze_dex_trades has 0.10 <= confidence <= 1.0
   and a non-empty sources list. *)
C10_MergedConfidenceInRange ==
    scan.pc = "merged" =>
        \A k \in 1..Len(scan.merged) :
            /\ ConfFloor <= scan.merged[k].confidence
            /\ scan.merged[k].confidence <= MaxConf
            /\ scan.merged[k].sources # << >>

(* the merge returned a record that two conflicting contributions cut to
   the floor, next to a record at the cap *)
C10_Witness ==
    /\ scan.pc = "merged"
    /\ \E k \in 1..Len(scan.merged) :
          /\ Len(scan.merged[k].sources) >= 3
          /\ scan.merged[k].confidence = ConfFloor
    /\ \E k \in 1..Len(scan.merged) : scan.merged[k].confidence = MaxConf

(* the signals merge_signals read for one symbol, in the order it read them:
   the netflow list first, then the DEX list *)
Contributions(symbol) ==
    SelectSeq(scan.netflow_signals \o scan.dex_signals,
              LAMBDA sig : sig.symbol = symbol)

(* C11, as claimed: merging two same-direction signals of one symbol yields
   a confidence that is at least the larger of the two signals' confidences
   (capped at 1.0), whichever of the two comes first. *)
C11_AgreementAtLeastMax ==
    scan.pc = "merged" =>
        \A k \in 1..Len(scan.merged) :
            LET c == Contributions(scan.merged[k].symbol)
            IN  (Len(c) = 2 /\ c[1].direction = c[2].direction) =>
                    scan.merged[k].confidence
                        >= Min(Max(c[1].confidence, c[2].confidence), MaxConf)

(* C11, amended: merging two same-direction signals of one symbol yields
   min(first-seen confidence + 0.20, 1.0): at least the first-seen signal's
   confidence, and at least the larger of the two whenever the later
   signal's confidence exceeds the first-seen one by no more than 0.20. *)
C11_AgreementBoostsFirstSeen ==
    scan.pc = "merged" =>
        \A k \in 1..Len(scan.merged) :
            LET c == Contributions(scan.merged[k].symbol)
                confidence == scan.merged[k].confidence
            IN  (Len(c) = 2 /\ c[1].direction = c[2].direction) =>
                    /\ confidence = Min(c[1].confidence + 20, 100)
                    /\ confidence >= c[1].confidence
                    /\ c[2].confidence <= c[1].confidence + 20 =>
                           confidence >= Max(c[1].confidence, c[2].confidence)

(* the merge returned a record of two agreeing signals, the later one more
   than 0.20 above the first-seen one *)
C11_Witness ==
    /\ scan.pc = "merged"
    /\ \E k \in 1..Len(scan.merged) :
          LET c == Contributions(scan.merged[k].symbol)
          IN  /\ Len(c) = 2
              /\ c[1].direction = c[2].direction
              /\ c[2].confidence > c[1].confidence + 20
              /\ scan.merged[k].confidence < 100

(* C12, as claimed: merging two opposite-direction signals of one symbol
   yields a confidence that is at most the smaller of the two signals'
   confidences less 0.29, floored at 0.10. *)
C12_ConflictBelowMin ==
    scan.pc = "merged" =>
        \A k \in 1..Len(scan.merged) :
            LET c == Contributions(scan.merged[k].symbol)
            IN  (Len(c) = 2 /\ c[1].direction # c[2].direction) =>
                    scan.merged[k].confidence
                        <= Max(Min(c[1].confidence, c[2].confidence) - 29, 10)

(* C12, amended: merging two opposite-direction signals of one symbol
   yields max(first-seen confidence - 0.30, 0.10): at most the first-seen
   signal's confidence less 0.29, floored at 0.10, which is the bound on
   the smaller of the two whenever the first-seen confidence does not
   exceed the later one. *)
C12_ConflictCutsFirstSeen ==
    scan.pc = "merged" =>
        \A k \in 1..Len(scan.merged) :
            LET c == Contributions(scan.merged[k].symbol)
                confidence == scan.merged[k].confidence
            IN  (Len(c) = 2 /\ c[1].direction # c[2].direction) =>
                    /\ confidence = Max(c[1].confidence - 30, 10)
                    /\ confidence <= Max(c[1].confidence - 29, 10)
                    /\ c[1].confidence <= c[2].confidence =>
                           confidence
                               <= Max(Min(c[1].confidence, c[2].confidence) - 29, 10)

(* the merge returned a record of two conflicting signals, the first-seen
   one the more confident, cut but still above the floor *)
C12_Witness ==
    /\ scan.pc = "merged"
    /\ \E k \in 1..Len(scan.merged) :
          LET c == Contributions(scan.merged[k].symbol)
          IN  /\ Len(c) = 2
              /\ c[1].direction # c[2].direction
              /\ c[1].confidence > c[2].confidence
              /\ scan.merged[k].confidence > 10

(* the list merge_signals iterates over *)
MergeInputs == scan.netflow_signals \o scan.dex_signals

(* the dict merged after the first i iterations of the loop *)
MergedAfter(i) == MergeLoop(<< >>, SubSeq(MergeInputs, 1, i), 1)

(* C13: a merged record has the direction and the chain of the first signal
   read for its symbol (netflow list first, then the DEX list); no later
   iteration of the loop changes the symbol, direction or chain of a record
   that is already in the dict, nor any record of another symbol. *)
C13_FirstSeenDirectionAndChain ==
    scan.pc = "merged" =>
        /\ \A k \in 1..Len(scan.merged) :
               LET c == Contributions(scan.merged[k].symbol)
               IN  /\ scan.merged[k].direction = c[1].direction
                   /\ scan.merged[k].chain = c[1].chain
        /\ \A i \in 1..Len(MergeInputs) :
               LET before == MergedAfter(i - 1)
                   after == MergedAfter(i)
               IN  \A k \in 1..Len(before) :
                       /\ after[k].symbol = before[k].symbol
                       /\ after[k].direction = before[k].direction
                       /\ after[k].chain = before[k].chain
                       /\ before[k].symbol # MergeInputs[i].symbol =>
                              after[k] = before[k]

(* the merge returned a record whose later contribution has the opposite
   direction and another chain than the first-seen one *)
C13_Witness ==
    /\ scan.pc = "merged"
    /\ \E k \in 1..Len(scan.merged) :
          LET c == Contributions(scan.merged[k].symbol)
          IN  /\ Len(c) >= 2
              /\ c[2].direction # c[1].direction
              /\ c[2].chain # c[1].chain
              /\ scan.merged[k].direction = c[1].direction
              /\ scan.merged[k].chain = c[1].chain
    /\ Len(scan.merged) >= 2

(* the sum of the net_flow_usd of the signals sigs[i..] *)
RECURSIVE SumNetFlow(_, _)
SumNetFlow(sigs, i) ==
    IF i > Len(sigs) THEN 0 ELSE sigs[i].net_flow_usd + SumNetFlow(sigs, i + 1)

(* C14: merge_signals returns exactly one record for each symbol that
   occurs in the two input lists; its net_flow_usd is the sum of the
   net_flow_usd of the signals read for that symbol and its sources list
   has one entry per such signal, in the order they were read. *)
C14_OneRecordPerSymbol ==
    scan.pc = "merged" =>
        /\ {scan.merged[k].symbol : k \in 1..Len(scan.merged)}
               = {MergeInputs[i].symbol : i \in 1..Len(MergeInputs)}
        /\ \A k, l \in 1..Len(scan.merged) :
               scan.merged[k].symbol = scan.merged[l].symbol => k = l
        /\ \A k \in 1..Len(scan.merged) :
               LET c == Contributions(scan.merged[k].symbol)
               IN  /\ scan.merged[k].net_flow_usd = SumNetFlow(c, 1)
                   /\ scan.merged[k].sources = [j \in 1..Len(c) |-> c[j].source]

(* the merge returned two records, one of them built from two netflow
   signals and a DEX signal of different flows *)
C14_Witness ==
    /\ scan.pc = "merged"
    /\ Len(scan.merged) = 2
    /\ Len(MergeInputs) >= 4
    /\ \E k \in 1..Len(scan.merged) :
          LET c == Contributions(scan.merged[k].symbol)
          IN  /\ scan.merged[k].sources
                     = << "nansen_smart_money_netflow", "nansen_smart_money_netflow",
                          "nansen_smart_money_dex" >>
              /\ c[1].net_flow_usd # c[2].net_flow_usd
              /\ c[3].net_flow_usd # 0
              /\ scan.merged[k].net_flow_usd
                     = c[1].net_flow_usd + c[2].net_flow_usd + c[3].net_flow_usd

(* the signals the two analyses have emitted so far *)
FlowSignals == scan.netflow_signals \o scan.dex_signals

(* C15, as claimed: every signal emitted by analyze_netflows or
   analyze_dex_trades has direction LONG exactly when its emitted
   net_flow_usd, the value after rounding to 2 decimals, is positive. *)
C15_DirectionMatchesEmittedFlow ==
    \A k \in 1..Len(FlowSignals) :
        (FlowSignals[k].direction = "LONG") <=> (FlowSignals[k].net_flow_usd > 0)

(* the primary flow of a raw netflow record: the 24h flow, or the 1h flow
   when the 24h flow is zero *)
PrimaryFlow(token_flow) ==
    IF token_flow.net_flow_24h_usd # 0 THEN token_flow.net_flow_24h_usd
    ELSE token_flow.net_flow_1h_usd

(* the signal sig is the one emitted for the raw record token_flow of chain *)
EmittedFor(sig, chain, token_flow) ==
    /\ token_flow.token_symbol # ""
    /\ sig.symbol = upper(token_flow.token_symbol)
    /\ sig.chain = chain
    /\ sig.net_flow_usd = round2(PrimaryFlow(token_flow))
    /\ sig.direction = IF PrimaryFlow(token_flow) > 0 THEN "LONG" ELSE "SHORT"

(* a and b are both non-zero and of the same sign *)
SameSign(a, b) == (a > 0 /\ b > 0) \/ (a < 0 /\ b < 0)

(* the confidence the claim states for a raw netflow record, in hundredths *)
ClaimedNetflowConfidence(token_flow) ==
    LET p == PrimaryFlow(token_flow)
        sum == 30
               + (IF Abs(p) > Usd(50000) THEN 20 ELSE 0)
               + (IF Abs(p) > Usd(200000) THEN 20 ELSE 0)
               + (IF token_flow.trader_count >= 3 THEN 10 ELSE 0)
               + (IF SameSign(token_flow.net_flow_1h_usd, token_flow.net_flow_24h_usd)
                  THEN 10 ELSE 0)
               + (IF SameSign(token_flow.net_flow_7d_usd, token_flow.net_flow_24h_usd)
                  THEN 10 ELSE 0)
    IN  Min(100, sum)

(* C16, as claimed: the confidence of every signal analyze_netflows emits
   is min(1.0, 0.30 + 0.20 [|primary| > 50000] + 0.20 [|primary| > 200000]
   + 0.10 [traders >= 3] + 0.10 [1h and 24h both non-zero, same sign]
   + 0.10 [7d and 24h both non-zero, same sign]); a record whose 24h flow
   is zero gets no sign-agreement bonus. *)
C16_NetflowConfidenceFormula ==
    scan.pc # "fetched" =>
        \A c \in 1..Len(Chains) :
            \A i \in 1..Len(scan.all_netflows[Chains[c]]) :
                \A k \in 1..Len(scan.netflow_signals) :
                    LET token_flow == scan.all_netflows[Chains[c]][i]
                        sig == scan.netflow_signals[k]
                    IN  EmittedFor(sig, Chains[c], token_flow) =>
                            sig.confidence = ClaimedNetflowConfidence(token_flow)

(* the positions in dex_signals of the signals of one token_agg entry *)
SignalsOf(agg) ==
    {k \in 1..Len(scan.dex_signals) :
        /\ scan.dex_signals[k].symbol = agg.symbol
        /\ scan.dex_signals[k].chain = agg.chain}

(* the emission condition the claim states for one entry:
   buys + sells >= 5000 and buy_ratio > 0.6 or buy_ratio < 0.4 *)
ClaimedDexEmits(agg) ==
    /\ agg.buys + agg.sells >= Usd(5000)
    /\ \/ 10 * agg.buys > 6 * (agg.buys + agg.sells)
       \/ 10 * agg.buys < 4 * (agg.buys + agg.sells)

(* the confidence the claim states for one entry, in hundredths, times
   buys + sells *)
ClaimedDexConfidence(agg) ==
    LET total == agg.buys + agg.sells
        base == Min(100 * Abs(2 * agg.buys - total) + 20 * total, 100 * total)
    IN  IF agg.trades >= 3 THEN Min(base + 10 * total, 100 * total) ELSE base

(* the signals in dex_signals are those of the entries that the claimed
   condition selects, one each, with the claimed direction *)
DexEmission ==
    /\ \A k \in 1..Len(scan.dex_signals) :
           \E a \in 1..Len(scan.token_agg) : k \in SignalsOf(scan.token_agg[a])
    /\ \A a \in 1..Len(scan.token_agg) :
           LET agg == scan.token_agg[a]
           IN  /\ Cardinality(SignalsOf(agg)) = IF ClaimedDexEmits(agg) THEN 1 ELSE 0
               /\ \A k \in SignalsOf(agg) :
                      (scan.dex_signals[k].direction = "LONG")
                          <=> (agg.buys - agg.sells > 0)

(* C17, as claimed: analyze_dex_trades emits a signal for a key exactly
   when buys + sells >= 5000 and buy_ratio > 0.6 or < 0.4; its direction is
   LONG exactly when buys - sells > 0, its net_flow_usd is buys - sells and
   its confidence is min(|buy_ratio - 0.5| * 2 + 0.2, 1.0), plus 0.10
   (capped at 1.0 again) when trades >= 3. *)
C17_DexSignalExact ==
    scan.pc \in {"dex_analyzed", "merged"} =>
        /\ DexEmission
        /\ \A a \in 1..Len(scan.token_agg) :
               LET agg == scan.token_agg[a]
               IN  \A k \in SignalsOf(agg) :
                       /\ scan.dex_signals[k].net_flow_usd * CentDiv
                              = agg.buys - agg.sells
                       /\ scan.dex_signals[k].confidence * (agg.buys + agg.sells)
                              = ClaimedDexConfidence(agg)

(* C17, amended: as claimed, except that the emitted net_flow_usd is
   buys - sells rounded to 2 decimals and the emitted confidence is the
   stated value rounded to 2 decimals. *)
C17_DexSignalRounded ==
    scan.pc \in {"dex_analyzed", "merged"} =>
        /\ DexEmission
        /\ \A a \in 1..Len(scan.token_agg) :
               LET agg == scan.token_agg[a]
               IN  \A k \in SignalsOf(agg) :
                       /\ 2 * Abs(scan.dex_signals[k].net_flow_usd * CentDiv
                                      - (agg.buys - agg.sells)) <= CentDiv
                       /\ 2 * Abs(scan.dex_signals[k].confidence
                                          * (agg.buys + agg.sells)
                                      - ClaimedDexConfidence(agg))
                              <= agg.buys + agg.sells

(* the analysis emitted a SHORT signal of three or more trades whose
   confidence, below the cap, and net flow are both rounded, next to a LONG
   signal of another key *)
C17_Witness ==
    /\ scan.pc = "dex_analyzed"
    /\ \E a \in 1..Len(scan.token_agg) :
          LET agg == scan.token_agg[a]
          IN  /\ agg.trades >= 3
              /\ \E k \in SignalsOf(agg) :
                     /\ scan.dex_signals[k].direction = "SHORT"
                     /\ scan.dex_signals[k].confidence < 100
                     /\ scan.dex_signals[k].confidence * (agg.buys + agg.sells)
                            # ClaimedDexConfidence(agg)
                     /\ scan.dex_signals[k].net_flow_usd * CentDiv
                            # agg.buys - agg.sells
    /\ \E k \in 1..Len(scan.dex_signals) : scan.dex_signals[k].direction = "LONG"

(* the legs of the raw trades of one chain that name a token: <<i, side>>
   for trade i buying (side "buys") or selling (side "sells") the token *)
Legs(chain, symbol) ==
    LET trades == scan.all_dex_trades[chain]
    IN  {<<i, "buys">> : i \in {j \in 1..Len(trades) :
                                  /\ trades[j].token_bought_symbol # ""
                                  /\ upper(trades[j].token_bought_symbol) = symbol}}
        \cup
        {<<i, "sells">> : i \in {j \in 1..Len(trades) :
                                   /\ trades[j].token_sold_symbol # ""
                                   /\ upper(trades[j].token_sold_symbol) = symbol}}

(* the legs of trades whose USD value is not zero *)
ValuedLegs(chain, symbol) ==
    {leg \in Legs(chain, symbol) :
        scan.all_dex_trades[chain][leg[1]].trade_value_usd # 0}

(* the summed USD value of the legs of one side among trades[i..] *)
RECURSIVE SumLegs(_, _, _, _)
SumLegs(chain, symbol, side, i) ==
    IF i > Len(scan.all_dex_trades[chain]) THEN 0
    ELSE (IF <<i, side>> \in Legs(chain, symbol)
          THEN scan.all_dex_trades[chain][i].trade_value_usd ELSE 0)
         + SumLegs(chain, symbol, side, i + 1)

(* the non-stable tokens the raw trades name *)
TradedTokens ==
    { upper(sym) : sym \in
        UNION { UNION { {scan.all_dex_trades[chain][i].token_bought_symbol,
                         scan.all_dex_trades[chain][i].token_sold_symbol} :
                        i \in 1..Len(scan.all_dex_trades[chain]) } :
                chain \in DOMAIN scan.all_dex_trades } } \ (stables \cup {""})

(* C18, as claimed: after aggregation the trades counter of every key
   (symbol, chain) equals the number of trade legs that name that
   non-stable token on that chain, trades of zero or missing USD value
   included, and buys and sells equal the summed USD value of those legs. *)
C18_CountsEveryLeg ==
    scan.pc \in {"dex_analyzed", "merged"} =>
        \A a \in 1..Len(scan.token_agg) :
            LET agg == scan.token_agg[a]
            IN  /\ agg.trades = Cardinality(Legs(agg.chain, agg.symbol))
                /\ agg.buys = SumLegs(agg.chain, agg.symbol, "buys", 1)
                /\ agg.sells = SumLegs(agg.chain, agg.symbol, "sells", 1)

(* C18, amended: after aggregation there is one key for each non-stable
   token and chain that a trade of non-zero USD value names; its trades
   counter equals the number of legs of such trades that name the token on
   that chain, and buys and sells equal the summed USD value of those
   legs.  Trades of zero or missing USD value are skipped whole. *)
C18_CountsValuedLegs ==
    scan.pc \in {"dex_analyzed", "merged"} =>
        /\ \A a \in 1..Len(scan.token_agg) :
               LET agg == scan.token_agg[a]
               IN  /\ agg.symbol \notin stables
                   /\ agg.trades = Cardinality(ValuedLegs(agg.chain, agg.symbol))
                   /\ agg.trades > 0
                   /\ agg.buys = SumLegs(agg.chain, agg.symbol, "buys", 1)
                   /\ agg.sells = SumLegs(agg.chain, agg.symbol, "sells", 1)
                   /\ \A b \in 1..Len(scan.token_agg) :
                          scan.token_agg[b].key = agg.key => a = b
        /\ \A chain \in DOMAIN scan.all_dex_trades :
               \A symbol \in TradedTokens :
                   ValuedLegs(chain, symbol) # {} =>
                       \E a \in 1..Len(scan.token_agg) :
                           scan.token_agg[a].key = <<symbol, chain>>

(* the aggregation counted a buy leg and a sell leg for a token that a
   trade of zero USD value names as well *)
C18_Witness ==
    /\ scan.pc = "dex_analyzed"
    /\ \E a \in 1..Len(scan.token_agg) :
          LET agg == scan.token_agg[a]
          IN  /\ agg.buys > 0
              /\ agg.sells > 0
              /\ agg.trades = 2
              /\ Cardinality(Legs(agg.chain, agg.symbol)) = 3

-----------------------------------------------------------------------------
(* Properties of the two scans on the shared ledger *)

(* C20: an active prediction stays in the ledger; it leaves status active
   only in a step of verify_predictions or process_expired_predictions
   whose clock reading is at or after its expires_at; a scan with an
   earlier clock reading leaves the whole record unchanged; and either scan
   with a clock reading at or after expires_at, equality included, takes it
   out of active. *)
C20_LeavesActiveOnlyByExpiredScan ==
    [][\A i \in Ids(ledger) :
          ledger[i].status = "active" =>
              /\ i \in Ids(ledger')
              /\ ledger'[i].status # "active" =>
                     (lastOp' \in Scans /\ now' >= ledger[i].expires_at)
              /\ (lastOp' \in Scans /\ now' < ledger[i].expires_at) =>
                     ledger'[i] = ledger[i]
              /\ (lastOp' \in Scans /\ now' >= ledger[i].expires_at) =>
                     ledger'[i].status # "active"]_vars

(* verify_predictions has run at the very second one prediction expires and
   marked it, over another one that is not yet expired and still active *)
C20_Witness ==
    /\ lastOp = "verify_predictions"
    /\ \E i, j \in Ids(ledger) :
          /\ ledger[i].status = "needs_verification"
          /\ ledger[i].expires_at = now
          /\ ledger[i].created_at < now
          /\ ledger[j].status = "active"
          /\ ledger[j].expires_at > now

(* C19, as claimed: with both entry points run fairly on the shared ledger
   and a price obtainable for every request, every prediction that is
   active and expired and whose asset has a price feed eventually has
   status won or lost. *)
C19_ExpiredEventuallyDecided ==
    \A i \in 1..MaxPreds :
        (/\ i \in Ids(ledger)
         /\ ledger[i].status = "active"
         /\ now >= ledger[i].expires_at
         /\ ledger[i].asset \in PYTH_FEED_IDS)
            ~> (i \in Ids(ledger) /\ ledger[i].status \in {"won", "lost"})

-----------------------------------------------------------------------------
(* Properties of the entry points run as separate processes *)

(* the processes that have saved their list, by entry point *)
Done(ops) == {p \in 1..MaxProcs : procs[p].pc = "done" /\ procs[p].op \in ops}

(* the same prediction, whatever a scan has written into it *)
SamePrediction(a, b) ==
    [a EXCEPT !.status = b.status, !.result_price = b.result_price,
              !.verified_at = b.verified_at] = b

(* every prediction a finished creation appended is in the file, one
   record each *)
CreationsKept ==
    /\ Len(ledger) >= Cardinality(Done({"create_prediction_tx"}))
    /\ \A p \in Done({"create_prediction_tx"}) :
           \E i \in Ids(ledger) :
               SamePrediction(ledger[i],
                              procs[p].predictions[Len(procs[p].predictions)])

(* every record a finished scan saved with a status other than active is
   in the file as the scan saved it *)
TransitionsKept ==
    \A p \in Done(Scans) :
        \A k \in Ids(procs[p].predictions) :
            procs[p].predictions[k].status # "active" =>
                \E i \in Ids(ledger) : ledger[i] = procs[p].predictions[k]

LocalIdsDistinct ==
    \A i, j \in Ids(ledger) : ledger[i].local_id = ledger[j].local_id => i = j

(* C21, as claimed: when creations and expiry scans run as separate
   processes whose loads and saves interleave, then once every process has
   saved, every created prediction is in the ledger, every status a scan
   wrote is in the ledger, and the local_ids are pairwise distinct. *)
C21_NoLostUpdate ==
    (\A p \in 1..MaxProcs : procs[p].pc # "loaded") =>
        /\ CreationsKept
        /\ TransitionsKept
        /\ LocalIdsDistinct

-----------------------------------------------------------------------------
(* Properties of predictions created with the default targets *)

(* C22, as claimed: when verify_prediction decides won for a prediction
   that create_prediction_tx made from a signal with a positive price and
   no take_profit_price and no stop_loss_price, the reference price is
   above the entry price for a LONG and below it for a SHORT. *)
C22_WonIsDirectionallyCorrect ==
    [][\A i \in Ids(ledger) :
          (/\ ledger[i].status = "active"
           /\ ledger[i].original_signal.price > 0
           /\ ledger[i].original_signal.take_profit_price = None
           /\ ledger[i].original_signal.stop_loss_price = None
           /\ i \in Ids(ledger')
           /\ ledger'[i].status = "won") =>
              LET current_price == Val(lastQuote'[i])
                  entry == from_micro(ledger[i].entry_price)
              IN  IF ledger[i].direction = "LONG"
                  THEN current_price > entry
                  ELSE current_price < entry]_vars

=============================================================================
